---- MODULE Spec2Model ----
(***************************************************************************)
(* Request-scoped transactional query execution context of                 *)
(* server/src/db.js: the mysql2 pool, the per-request context              *)
(* { conn, inTx, cleaned } kept in AsyncLocalStorage, the executor         *)
(* run/get/all and the cleanup routine registered on 'finish'/'close'.     *)
(*                                                                         *)
(* One step of the model is one run-to-suspension of JavaScript code: from *)
(* the resumption of an await to the next await that really suspends (a    *)
(* getConnection that has to wait, conn.beginTransaction/commit/rollback,  *)
(* execute).  A database command takes effect, and the code awaiting it    *)
(* resumes, in the step that removes it from the head of its connection's  *)
(* FIFO command queue.  A handler awaits each executor call before it      *)
(* issues the next one; cleanup() runs whenever a completion signal of     *)
(* the response is emitted, also while the handler is still running.       *)
(***************************************************************************)
EXTENDS Naturals, Integers, Sequences, FiniteSets, TLC

\* Bounds of the model.
NumReqs == 2          \* concurrently handled requests
MaxCalls == 3         \* executor calls one handler issues
MaxPoolSize == 2      \* largest DB_POOL_SIZE tried
MaxStartupCalls == 2  \* executor calls of the startup code (seedAdmin)
StartupReqCalls == 1  \* calls per handler when the startup code is explored
MaxFaults == 1        \* failures of the database or the pool in one run
FaultReqCalls == 2    \* calls per handler when failures are explored
LiveReqCalls == 2     \* calls per handler when progress is explored
MaxTextLen == 3       \* tokens of a statement text given to run

Reqs == 1..NumReqs
NoCtx == 0                      \* the caller outside any request
Procs == {NoCtx} \cup Reqs
Conns == 1..MaxPoolSize
Null == 0                       \* ctx.conn = null

TxKinds == {"BEGIN", "COMMIT", "ROLLBACK"}
OrdKinds == {"RUN", "GET"}      \* run(ordinary write), get/all(read)
Signals == {"finish", "close"}
\* <<writer, written inside its transaction, statement of the invoice handler
\* that wrote it (0: any other handler)>>
Rows == Procs \X BOOLEAN \X {0, 2, 3}
NoRead == [seen |-> {}, dirty |-> {}]

\* Statement texts, as sequences of tokens: whitespace, and words in which
\* case matters to nobody ("inserted": a longer word starting with insert).
Tokens == {"ws", "insert", "INSERT", "inserted", "into", "update", "delete"}
RECURSIVE TextsOfLen(_)
TextsOfLen(n) ==
    IF n = 0 THEN {<<>>}
    ELSE {Append(t, x) : t \in TextsOfLen(n - 1), x \in Tokens}
Texts == UNION {TextsOfLen(n) : n \in 0..MaxTextLen}

\* JavaScript values of the driver's result fields and of run's id.
Undefined == [t |-> "undefined", v |-> 0]
NullVal == [t |-> "null", v |-> 0]
Num(n) == [t |-> "number", v |-> n]
Str(n) == [t |-> "string", v |-> n]
\* What execute resolves to: nothing, or an object whose insertId and
\* affectedRows are a number, a string (big numbers) or absent (row arrays).
NilRes == [nil |-> TRUE, insertId |-> Undefined, affectedRows |-> Undefined]
DbResults ==
    {NilRes} \cup
    [nil : {FALSE},
     insertId : {Undefined, Str(7), Num(0), Num(7)},
     affectedRows : {Undefined, Num(0), Num(2)}]
NoOut == [done |-> FALSE, id |-> NullVal, changes |-> 0]
NoNorm == [k |-> "none", q |-> <<>>, res |-> NilRes, out |-> NoOut]

\* The handler of the isolation scenario: begin; insert; read-back; commit.
IsoScript == <<"BEGIN", "RUN", "GET", "COMMIT">>

\* A handler that begins twice, commits, writes and commits again.
NestScript == <<"BEGIN", "BEGIN", "COMMIT", "RUN", "COMMIT">>

\* POST /invoices past its validation: BEGIN; INSERT INTO invoices; INSERT
\* INTO invoice_items; COMMIT (its catch block calls ROLLBACK).
InvoiceScript == <<"BEGIN", "RUN", "RUN", "COMMIT">>
InvoiceRow == 2
ItemRow == 3

\* Calls each of the two concurrent call chains of one handler issues.
ConcCalls == 2

\* Statement texts for the classifier: whitespace, a punctuation character,
\* and runs of letters (two adjacent runs of letters read as one word, so
\* <<"BEGIN", "NING">> is the text BEGINNING).
MaxSqlLen == 4
SqlTokens ==
    {"ws", ";", "BEGIN", "begin", "NING", "START", "TRANSACTION",
     "COMMIT", "Commit", "ROLLBACK"}
RECURSIVE SqlOfLen(_)
SqlOfLen(n) ==
    IF n = 0 THEN {<<>>}
    ELSE {Append(t, tok) : t \in SqlOfLen(n - 1), tok \in SqlTokens}
SqlTexts == UNION {SqlOfLen(n) : n \in 0..MaxSqlLen}
NoCls == [q |-> <<>>, class |-> "none"]

VARIABLES
    capacity,     \* connectionLimit of the pool (POOL_SIZE)
    listening,    \* app.listen was called: requests are being served
    pool,         \* [created, free, waiting]: connections made so far, the
                  \* free list, the FIFO queue of callers waiting for one
    cmdq,         \* per connection: FIFO queue of commands sent on it
    db,           \* database: txOpen/pending per connection, committed rows
    ctx,          \* per caller: [conn, inTx, cleaned] (never used for NoCtx)
    pc,           \* per caller: "idle", "acquire", "db", "done"
    op,           \* per caller: statement class of the call in progress
    ncalls,       \* per caller: executor calls issued so far
    result,       \* per caller: outcome of the last call
    lastRead,     \* per caller: rows returned by its last get/all
    fired,        \* per request: completion signals emitted so far
    cpc,          \* per request: "idle" or "rollback" (cleanup awaiting it)
    ltx,          \* per caller: connection leased by its open BEGIN, or 0
    ended,        \* per caller: it has issued COMMIT or ROLLBACK
    cleanupRuns,  \* per request: executions of cleanup's body past the guard
    scripted,     \* handlers run IsoScript instead of any mix of calls
    budget,       \* per caller: executor calls it issues at most
    ordOnly,      \* requests whose handler issues ordinary statements only
    faultCap,     \* failures of the database or the pool that may happen
    faults,       \* failures that happened: <<caller, what failed>>
    norm,         \* run's result mapping: statement, driver result, return
    scenario,     \* "none", or the handler code the requests run
    caught,       \* requests whose handler is in its catch block
    cls           \* the classifier: statement text and the class it gets

vars == <<capacity, listening, pool, cmdq, db, ctx, pc, op, ncalls, result,
          lastRead, fired, cpc, ltx, ended, cleanupRuns, scripted, budget,
          ordOnly, faultCap, faults, norm, scenario, caught, cls>>

----------------------------------------------------------------------------
\* Statement classifier, on the statement classes the handlers issue.
isBegin(k) == k = "BEGIN"
isCommit(k) == k = "COMMIT"
isRollback(k) == k = "ROLLBACK"

\* getCtx(): the store of the AsyncLocalStorage is a context inside a
\* request and undefined outside.
HasCtx(p) == p \in Reqs

\* A fallback instead of the throw: every caller is given a context.
CtxMissingNever(p) == FALSE

\* if (!ctx) throw new Error("DB context missing. ...")
CtxMissing(p) == ~HasCtx(p)

\* One context object shared by every request.
StoreShared(p) == IF p \in Reqs THEN 1 ELSE p

\* als.getStore() in code that runs on behalf of caller p, also after an
\* await: the context object als.run was given for p's request.
Store(p) == IF scenario = "conc" /\ p \in Reqs THEN 1 ELSE p

\* useTx = Boolean(ctx?.inTx && ctx?.conn)
useTx(p) == HasCtx(p) /\ ctx[Store(p)].inTx /\ ctx[Store(p)].conn # Null

\* A failure of kind what in a step of caller p is still possible.
CanFail(p, what) ==
    Cardinality(faults) < faultCap /\ <<p, what>> \notin faults
Fault(p, what) == faults \cup {<<p, what>>}
\* How the command at the head of a connection's queue may turn out: "ok",
\* "exec" (the database rejects it), and for cleanup "release" (its
\* conn.release() throws).
DbOutcomes(cmd) ==
    {"ok"} \cup (IF CanFail(cmd.p, cmd.k) THEN {"exec"} ELSE {})
           \cup (IF cmd.k = "cleanupRollback" /\ CanFail(cmd.p, "release")
                 THEN {"release"} ELSE {})
FaultsAfter(p, what, o) ==
    IF o = "ok" THEN faults ELSE Fault(p, IF o = "exec" THEN what ELSE o)

----------------------------------------------------------------------------
\* A pool that fails a getConnection it cannot serve at once.
WaitForConnectionsOff == FALSE

\* waitForConnections: true
WaitForConnections == TRUE

\* The pool (connectionLimit, waitForConnections: true, queueLimit: 0).
\* getConnection takes the most recently released free connection, else
\* opens a new one while fewer than connectionLimit exist, else waits.
\* A pool that opens connections beyond connectionLimit.
PoolAvailUnbounded(pl) == pl.free # <<>> \/ pl.created < MaxPoolSize

PoolAvail(pl) == pl.free # <<>> \/ pl.created < capacity
PoolConn(pl) ==
    IF pl.free # <<>> THEN pl.free[Len(pl.free)] ELSE pl.created + 1
PoolTake(pl) ==
    IF pl.free # <<>>
    THEN [pl EXCEPT !.free = SubSeq(@, 1, Len(@) - 1)]
    ELSE [pl EXCEPT !.created = @ + 1]
PoolEnqueue(pl, p) == [pl EXCEPT !.waiting = Append(@, p)]
\* release: the connection goes back on the free list (the head of the
\* waiting queue is served from it, see Grant).
PoolRelease(pl, c) == [pl EXCEPT !.free = Append(@, c)]

\* A command on a connection: who awaits it, what it is, the row it writes,
\* and whether pool.execute borrowed the connection for it.
RowNo(p) ==
    IF scenario # "invoice" THEN 0
    ELSE IF pc[p] = "acquire" THEN ncalls[p] ELSE ncalls[p] + 1
Cmd(p, k, pooled) ==
    [p |-> p, k |-> k, tag |-> (ltx[p] # 0), n |-> RowNo(p), pooled |-> pooled]
OrdCmd(k) == IF k = "RUN" THEN "write" ELSE "read"
Send(q, c, cmd) == [q EXCEPT ![c] = Append(@, cmd)]

\* The database: one session per connection; START TRANSACTION commits a
\* transaction the session still has open.
DbBegin(d, c) ==
    [d EXCEPT !.committed = IF d.txOpen[c] THEN @ \cup d.pending[c] ELSE @,
              !.pending[c] = {}, !.txOpen[c] = TRUE]
DbCommit(d, c) ==
    [d EXCEPT !.committed = @ \cup d.pending[c],
              !.pending[c] = {}, !.txOpen[c] = FALSE]
DbRollback(d, c) == [d EXCEPT !.pending[c] = {}, !.txOpen[c] = FALSE]
DbWrite(d, c, row) ==
    IF d.txOpen[c] THEN [d EXCEPT !.pending[c] = @ \cup {row}]
    ELSE [d EXCEPT !.committed = @ \cup {row}]
DbVisible(d, c) == d.committed \cup d.pending[c]
DbApply(d, c, cmd) ==
    CASE cmd.k = "begin" -> DbBegin(d, c)
      [] cmd.k = "commit" -> DbCommit(d, c)
      [] cmd.k \in {"rollback", "cleanupRollback"} -> DbRollback(d, c)
      [] cmd.k = "write" -> DbWrite(d, c, <<cmd.p, cmd.tag, cmd.n>>)
      [] OTHER -> d

----------------------------------------------------------------------------
InitCore(mode, startupCalls, reqCalls, ord, cap) ==
    /\ capacity \in 1..MaxPoolSize
    /\ listening = FALSE
    /\ pool = [created |-> 0, free |-> <<>>, waiting |-> <<>>]
    /\ cmdq = [c \in Conns |-> <<>>]
    /\ db = [txOpen |-> [c \in Conns |-> FALSE],
             pending |-> [c \in Conns |-> {}],
             committed |-> {}]
    /\ ctx = [p \in Procs |-> [conn |-> Null, inTx |-> FALSE, cleaned |-> FALSE]]
    /\ pc = [p \in Procs |-> "idle"]
    /\ op = [p \in Procs |-> "none"]
    /\ ncalls = [p \in Procs |-> 0]
    /\ result = [p \in Procs |-> "none"]
    /\ lastRead = [p \in Procs |-> NoRead]
    /\ fired = [r \in Reqs |-> {}]
    /\ cpc = [r \in Reqs |-> "idle"]
    /\ ltx = [p \in Procs |-> 0]
    /\ ended = [p \in Procs |-> FALSE]
    /\ cleanupRuns = [r \in Reqs |-> 0]
    /\ scripted = mode
    /\ budget = [p \in Procs |-> IF HasCtx(p) THEN reqCalls ELSE startupCalls]
    /\ ordOnly = ord
    /\ faultCap = cap
    /\ faults = {}

\* No failure of the database or the pool, no handler restricted.
NoScenario == scenario = "none" /\ caught = {} /\ cls = NoCls
InitWith(mode, startupCalls, reqCalls) ==
    /\ InitCore(mode, startupCalls, reqCalls, {}, 0)
    /\ norm = NoNorm /\ NoScenario

\* String(sql).trim(), on token sequences.
RECURSIVE TrimLeft(_)
TrimLeft(q) == IF q # <<>> /\ Head(q) = "ws" THEN TrimLeft(Tail(q)) ELSE q
RECURSIVE TrimRight(_)
TrimRight(q) ==
    IF q # <<>> /\ q[Len(q)] = "ws" THEN TrimRight(SubSeq(q, 1, Len(q) - 1)) ELSE q
Trim(q) == TrimRight(TrimLeft(q))

\* The i flag of the regular expressions.
Lower(tok) == IF tok = "INSERT" THEN "insert" ELSE tok

\* An id for whatever statement reports a numeric insertId.
isInsertAny(q) == TRUE

\* /^\s*insert\s+/i.test(q)
isInsert(q) ==
    LET t == TrimLeft(q)
    IN Len(t) >= 2 /\ Lower(t[1]) = "insert" /\ t[2] = "ws"

\* What run(sql) returns for statement class k, text sql and the result
\* res of execute.
RunResult(k, sql, res) ==
    IF k \in TxKinds
    THEN [done |-> TRUE, id |-> NullVal, changes |-> 0]
    ELSE LET q == Trim(sql)
             insertId == IF isInsert(q) /\ ~res.nil /\ res.insertId.t = "number"
                         THEN res.insertId ELSE NullVal
             changes == IF ~res.nil /\ res.affectedRows.t = "number"
                        THEN res.affectedRows.v ELSE 0
         IN [done |-> TRUE, id |-> insertId, changes |-> changes]

\* The i flag, for the words of the classifier.
Upper(tok) ==
    CASE tok = "begin" -> "BEGIN" [] tok = "Commit" -> "COMMIT" [] OTHER -> tok
IsWordTok(tok) == tok \notin {"ws", ";"}
\* \b after the token at position i: the text ends there or a non-word
\* character follows.
WordEnd(t, i) == i = Len(t) \/ ~IsWordTok(t[i + 1])
\* ^\s*KEYWORD\b on the trimmed text t
StartsWith(t, kw) ==
    LET u == TrimLeft(t) IN Len(u) >= 1 /\ Upper(u[1]) = kw /\ WordEnd(u, 1)

\* A test for begin without the \b.
isBeginTextNoBoundary(sql) ==
    LET u == TrimLeft(Trim(sql)) IN Len(u) >= 1 /\ Upper(u[1]) = "BEGIN"

\* isBegin(sql): /^\s*(BEGIN|START\s+TRANSACTION)\b/i.test(String(sql).trim())
isBeginText(sql) ==
    LET u == TrimLeft(Trim(sql))
    IN \/ StartsWith(u, "BEGIN")
       \/ /\ Len(u) >= 3 /\ Upper(u[1]) = "START" /\ u[2] = "ws"
          /\ \E j \in 3..Len(u) :
                /\ \A i \in 2..(j - 1) : u[i] = "ws"
                /\ Upper(u[j]) = "TRANSACTION" /\ WordEnd(u, j)
\* isCommit(sql): /^\s*COMMIT\b/i.test(String(sql).trim())
isCommitText(sql) == StartsWith(Trim(sql), "COMMIT")
\* isRollback(sql): /^\s*ROLLBACK\b/i.test(String(sql).trim())
isRollbackText(sql) == StartsWith(Trim(sql), "ROLLBACK")

\* The branch of run a statement text takes: the three tests in the order
\* of run's if statements, else the ordinary path.
Classify(sql) ==
    IF isBeginText(sql) THEN "BEGIN"
    ELSE IF isCommitText(sql) THEN "COMMIT"
    ELSE IF isRollbackText(sql) THEN "ROLLBACK"
    ELSE "ordinary"

\* The statement texts given to the classifier.
InitClass ==
    /\ InitCore(FALSE, 0, 0, {}, 0) /\ norm = NoNorm
    /\ scenario = "none" /\ caught = {}
    /\ cls \in [q : SqlTexts, class : {"none"}]

\* The calls of run whose result mapping is examined.
NormInputs ==
    [k : {"RUN"}, q : Texts, res : DbResults, out : {NoOut}]
    \cup [k : TxKinds, q : {<<>>}, res : {NilRes}, out : {NoOut}]
InitNorm == InitCore(FALSE, 0, 0, {}, 0) /\ norm \in NormInputs /\ NoScenario

\* The server under load: any mix of calls in every handler.
Init == InitWith(FALSE, 0, MaxCalls)

\* The isolation scenario.
InitIso == InitWith(TRUE, 0, Len(IsoScript))

\* The startup code (outside any request), then the server.
InitStartup == InitWith(FALSE, MaxStartupCalls, StartupReqCalls)

\* The handler of request 1 issues ordinary statements only.
InitOrd == InitCore(FALSE, 0, MaxCalls, {1}, 0) /\ norm = NoNorm /\ NoScenario

\* Statements, getConnection and release may fail.
InitFail ==
    InitCore(FALSE, 0, FaultReqCalls, {}, MaxFaults) /\ norm = NoNorm /\ NoScenario

\* One request whose handler runs two call chains at the same time (as
\* under Promise.all): both use the context of the request.
InitConc ==
    /\ InitCore(FALSE, 0, ConcCalls, {}, 0) /\ norm = NoNorm
    /\ scenario = "conc" /\ caught = {} /\ cls = NoCls

\* Requests whose handler begins twice before it commits.
InitNest ==
    /\ InitCore(TRUE, 0, Len(NestScript), {}, 0) /\ norm = NoNorm
    /\ scenario = "nest" /\ caught = {} /\ cls = NoCls

\* Requests to POST /invoices, with statements that may fail.
InitInvoice ==
    /\ InitCore(TRUE, 0, Len(InvoiceScript) + 1, {}, MaxFaults) /\ norm = NoNorm
    /\ scenario = "invoice" /\ caught = {} /\ cls = NoCls

\* Short handlers, for the progress properties.
InitLive == InitWith(FALSE, 0, LiveReqCalls)

\* The statements of the handler the requests run.
Script ==
    CASE scenario = "invoice" -> InvoiceScript
      [] scenario = "nest" -> NestScript
      [] OTHER -> IsoScript

\* POST /invoices: a rejected call of run (or one before it) has taken the
\* handler into its catch block, whose only call is run("ROLLBACK").
InCatch(p) ==
    /\ scenario = "invoice"
    /\ IF p \in caught THEN TRUE ELSE result[p] = "dbError"

\* Caller p may issue statement class k as its next call: the startup code
\* runs before app.listen, the handlers after it.
MayIssue(p, k) ==
    /\ pc[p] = "idle"
    /\ HasCtx(p) <=> listening
    /\ p \in ordOnly => k \in OrdKinds
    /\ IF scripted
       THEN /\ HasCtx(p)
            /\ IF InCatch(p)
               THEN p \notin caught /\ k = "ROLLBACK"
               ELSE ncalls[p] < Len(Script) /\ k = Script[ncalls[p] + 1]
       ELSE ncalls[p] < budget[p]

----------------------------------------------------------------------------
\* run(BEGIN|COMMIT|ROLLBACK) from `const ctx = await ensureTxConn()` on,
\* with ctx.conn = c just set or already there and the pool pl.
TxCont(r, k, c, pl) ==
    IF isBegin(k)
    THEN IF ~ctx[Store(r)].inTx
         THEN /\ cmdq' = Send(cmdq, c, Cmd(r, "begin", FALSE))
              /\ ctx' = [ctx EXCEPT ![Store(r)].conn = c]
              /\ pc' = [pc EXCEPT ![r] = "db"]
              /\ pool' = pl
              /\ result' = [result EXCEPT ![r] = "none"]
              /\ op' = [op EXCEPT ![r] = k]
         ELSE /\ ctx' = [ctx EXCEPT ![Store(r)].conn = c]
              /\ pc' = [pc EXCEPT ![r] = "idle"]
              /\ result' = [result EXCEPT ![r] = "ok"]
              /\ op' = [op EXCEPT ![r] = "none"]
              /\ pool' = pl
              /\ UNCHANGED cmdq
    ELSE IF ctx[Store(r)].inTx
         THEN /\ cmdq' = Send(cmdq, c, Cmd(r, IF isCommit(k) THEN "commit" ELSE "rollback", FALSE))
              /\ ctx' = [ctx EXCEPT ![Store(r)].conn = c]
              /\ pc' = [pc EXCEPT ![r] = "db"]
              /\ pool' = pl
              /\ result' = [result EXCEPT ![r] = "none"]
              /\ op' = [op EXCEPT ![r] = k]
         ELSE \* if (ctx.conn) { ctx.conn.release(); ctx.conn = null; }
              /\ pool' = IF c # Null THEN PoolRelease(pl, c) ELSE pl
              /\ ctx' = [ctx EXCEPT ![Store(r)].conn = Null]
              /\ pc' = [pc EXCEPT ![r] = "idle"]
              /\ result' = [result EXCEPT ![r] = "ok"]
              /\ op' = [op EXCEPT ![r] = "none"]
              /\ UNCHANGED cmdq

\* The transaction the handler is in once run(k) on connection c has got
\* past ensureTxConn: a BEGIN that finds inTx set returns at once.
LtxCont(r, k, c) ==
    IF isBegin(k)
    THEN IF ctx[Store(r)].inTx
         THEN [ltx EXCEPT ![r] = IF @ = 0 THEN c ELSE @] ELSE ltx
    ELSE [ltx EXCEPT ![r] = 0]

\* Caller p needs a connection from the pool for its next call and the pool
\* cannot serve it at once.
Exhausted(p) ==
    /\ ~useTx(p)
    /\ ~(pool.waiting = <<>> /\ PoolAvail(pool))

\* A pool.execute that keeps the connection it borrowed.
PoolExecKeep(p, k, pl) ==
    /\ cmdq' = Send(cmdq, PoolConn(pl), Cmd(p, OrdCmd(k), FALSE))
    /\ pool' = PoolTake(pl)
    /\ pc' = [pc EXCEPT ![p] = "db"]

\* pool.execute(q, params): the statement goes out on a borrowed connection.
PoolExec(p, k, pl) ==
    /\ cmdq' = Send(cmdq, PoolConn(pl), Cmd(p, OrdCmd(k), TRUE))
    /\ pool' = PoolTake(pl)
    /\ pc' = [pc EXCEPT ![p] = "db"]

\* run(k) whose ensureTxConn got no connection: the error goes to the
\* caller, ctx.conn was not assigned.
NoConnection(r, k, err) ==
    /\ result' = [result EXCEPT ![r] = err]
    /\ op' = [op EXCEPT ![r] = "none"]
    /\ ltx' = [ltx EXCEPT ![r] = IF isBegin(k) THEN @ ELSE 0]
    /\ UNCHANGED <<cmdq, ctx, pc>>

\* An ensureTxConn that leases a connection only when there is a command to
\* send on it.
NeedsConnIfUsed(cx, k) == cx.conn = Null /\ (isBegin(k) \/ cx.inTx)

\* if (!ctx.conn) ctx.conn = await pool.getConnection(): the first statement
\* of each of the three transaction branches of run, whatever ctx.inTx is.
NeedsConn(cx, k) == cx.conn = Null

\* The handler awaits each call before it makes the next, so nothing of its
\* context runs between getConnection's callback and the code after it;
\* with concurrent call chains on one context the callback is a step of
\* its own (Grant).
Sequential == scenario # "conc"

\* run(sql) with a transaction-control statement: ensureTxConn, which throws
\* outside a request before it touches the pool, then the command.
IssueTx(r, k) ==
    /\ r \in Procs /\ k \in TxKinds
    /\ MayIssue(r, k)
    /\ ncalls' = [ncalls EXCEPT ![r] = @ + 1]
    /\ lastRead' = [lastRead EXCEPT ![r] = NoRead]
    /\ IF CtxMissing(r)
       THEN /\ result' = [result EXCEPT ![r] = "ctxError"]
            /\ op' = [op EXCEPT ![r] = k]
            /\ UNCHANGED <<pool, cmdq, ctx, pc, ltx, ended, faults>>
       ELSE /\ ended' = [ended EXCEPT ![r] = @ \/ ~isBegin(k)]
            /\ IF ~NeedsConn(ctx[Store(r)], k)
               THEN /\ TxCont(r, k, ctx[Store(r)].conn, pool)
                    /\ ltx' = LtxCont(r, k, ctx[Store(r)].conn)
                    /\ UNCHANGED faults
               ELSE IF Sequential /\ pool.waiting = <<>> /\ PoolAvail(pool)
               THEN \E o \in {"ok"} \cup (IF CanFail(r, "acquire")
                                          THEN {"acquire"} ELSE {}) :
                      /\ faults' = FaultsAfter(r, "acquire", o)
                      /\ IF o = "ok"
                         THEN /\ TxCont(r, k, PoolConn(pool), PoolTake(pool))
                              /\ ltx' = LtxCont(r, k, PoolConn(pool))
                         ELSE \* getConnection rejects: ensureTxConn throws
                              /\ NoConnection(r, k, "dbError")
                              /\ UNCHANGED pool
               ELSE IF WaitForConnections
               THEN /\ pool' = PoolEnqueue(pool, r)
                    /\ pc' = [pc EXCEPT ![r] = "acquire"]
                    /\ op' = [op EXCEPT ![r] = k]
                    /\ ltx' = [ltx EXCEPT ![r] = IF isBegin(k) THEN @ ELSE 0]
                    /\ result' = [result EXCEPT ![r] = "none"]
                    /\ UNCHANGED <<cmdq, ctx, faults>>
               ELSE /\ NoConnection(r, k, "poolError")
                    /\ UNCHANGED <<pool, faults>>
    /\ caught' = IF scenario = "invoice" /\ result[r] = "dbError"
                 THEN caught \cup {r} ELSE caught
    /\ UNCHANGED <<capacity, listening, db, fired, cpc, cleanupRuns, scripted, budget,
                   ordOnly, faultCap, norm, scenario, cls>>

\* run(sql) with an ordinary statement, get(sql), all(sql): on ctx.conn when
\* useTx, else pool.execute, which waits for a connection of the pool.
IssueOrd(p, k) ==
    /\ p \in Procs /\ k \in OrdKinds
    /\ MayIssue(p, k)
    /\ op' = [op EXCEPT ![p] = IF Exhausted(p) /\ ~WaitForConnections THEN "none" ELSE k]
    /\ ncalls' = [ncalls EXCEPT ![p] = @ + 1]
    /\ lastRead' = [lastRead EXCEPT ![p] = NoRead]
    /\ IF useTx(p)
       THEN /\ cmdq' = Send(cmdq, ctx[Store(p)].conn, Cmd(p, OrdCmd(k), FALSE))
            /\ pc' = [pc EXCEPT ![p] = "db"]
            /\ result' = [result EXCEPT ![p] = "none"]
            /\ UNCHANGED pool
       ELSE IF pool.waiting = <<>> /\ PoolAvail(pool)
       THEN /\ PoolExec(p, k, pool)
            /\ result' = [result EXCEPT ![p] = "none"]
       ELSE /\ pool' = IF WaitForConnections THEN PoolEnqueue(pool, p) ELSE pool
            /\ pc' = [pc EXCEPT ![p] = IF WaitForConnections THEN "acquire" ELSE @]
            /\ result' = [result EXCEPT ![p] =
                             IF WaitForConnections THEN "none" ELSE "poolError"]
            /\ UNCHANGED cmdq
    /\ UNCHANGED <<capacity, listening, db, ctx, fired, cpc, ltx, ended,
                   cleanupRuns, scripted, budget,
                   ordOnly, faultCap, faults, norm, scenario, caught, cls>>

\* The pool serves the head of its queue with a released connection: the
\* getConnection of ensureTxConn resumes (ctx.conn = conn), or pool.execute
\* sends its statement on the borrowed connection.
Grant(p) ==
    /\ pool.waiting # <<>> /\ Head(pool.waiting) = p
    /\ PoolAvail(pool)
    /\ LET pl == [pool EXCEPT !.waiting = Tail(@)]
       IN IF op[p] \in TxKinds
          THEN /\ TxCont(p, op[p], PoolConn(pl), PoolTake(pl))
               /\ ltx' = LtxCont(p, op[p], PoolConn(pl))
          ELSE /\ PoolExec(p, op[p], pl)
               /\ UNCHANGED <<ctx, result, ltx, op>>
    /\ UNCHANGED <<capacity, listening, db, ncalls, lastRead, fired, cpc,
                   ended, cleanupRuns, scripted, budget,
                   ordOnly, faultCap, faults, norm, scenario, caught, cls>>

\* cleanup without its one-shot guard.
CleanupGuardOff(r) == FALSE

\* if (ctx.cleaned) return;
CleanupGuard(r) == ctx[r].cleaned

\* A release that forgets ctx.conn = null.
CtxReleaseKeep(cx) == cx

\* conn.release(); ctx.conn = null: the context after it gave up its
\* connection, and the pool (a release of null throws and is caught in
\* cleanup, and is guarded by if (ctx.conn) in run).
CtxRelease(cx) == [cx EXCEPT !.conn = Null]
PoolAfterRelease(pl, cx) ==
    IF cx.conn # Null THEN PoolRelease(pl, cx.conn) ELSE pl

\* A cleanup without finally: a failed rollback skips the release.
CleanupPoolNoFinally(pl, cx, o) ==
    IF o = "ok" THEN PoolAfterRelease(pl, cx) ELSE pl

\* finally { try { ctx.conn.release(); } catch {} }: the pool after
\* cleanup's release, which runs whether the rollback resolved ("ok") or
\* rejected ("exec"), and has no effect when release itself throws.
CleanupPool(pl, cx, o) ==
    IF o = "release" THEN pl ELSE PoolAfterRelease(pl, cx)

\* A completion signal of the response calls cleanup().
Signal(r, s) ==
    /\ r \in Reqs /\ s \in Signals \ fired[r]
    /\ listening /\ Store(r) = r
    /\ s = "finish" => \A q \in Reqs : Store(q) = r => pc[q] = "done"
    /\ fired' = [fired EXCEPT ![r] = @ \cup {s}]
    /\ IF CleanupGuard(r)
       THEN UNCHANGED <<pool, cmdq, ctx, cpc, cleanupRuns, faults>>
       ELSE /\ cleanupRuns' = [cleanupRuns EXCEPT ![r] = @ + 1]
            /\ IF ctx[r].conn # Null /\ ctx[r].inTx
               THEN /\ cmdq' = Send(cmdq, ctx[r].conn, Cmd(r, "cleanupRollback", FALSE))
                    /\ cpc' = [cpc EXCEPT ![r] = "rollback"]
                    /\ ctx' = [ctx EXCEPT ![r].cleaned = TRUE]
                    /\ UNCHANGED <<pool, faults>>
               ELSE \E o \in {"ok"} \cup (IF ctx[r].conn # Null /\ CanFail(r, "release")
                                          THEN {"release"} ELSE {}) :
                    \* try { ctx.conn.release() } catch {}
                    /\ faults' = FaultsAfter(r, "release", o)
                    /\ pool' = CleanupPool(pool, ctx[r], o)
                    /\ ctx' = [ctx EXCEPT ![r] =
                                 IF @.conn # Null
                                 THEN [CtxRelease(@) EXCEPT !.inTx = FALSE, !.cleaned = TRUE]
                                 ELSE [@ EXCEPT !.cleaned = TRUE]]
                    /\ UNCHANGED <<cmdq, cpc>>
    /\ UNCHANGED <<capacity, listening, db, pc, op, ncalls, result, lastRead,
                   ltx, ended, scripted, budget, ordOnly, faultCap, norm, scenario, caught, cls>>

\* A scripted handler responds after its last call; POST /invoices also
\* when validation fails (before any call), and at the end of its catch
\* block, whatever its run("ROLLBACK") did.
MayStop(r) ==
    IF scenario = "invoice"
    THEN IF r \in caught THEN TRUE
         ELSE IF ncalls[r] = 0 THEN TRUE
         ELSE ncalls[r] = Len(Script) /\ result[r] = "ok"
    ELSE ncalls[r] = Len(Script)

\* The handler stops (it responded, or threw and the error handler did).
HandlerDone(r) ==
    /\ r \in Reqs /\ pc[r] = "idle" /\ listening
    /\ scripted => MayStop(r)
    /\ pc' = [pc EXCEPT ![r] = "done"]
    /\ lastRead' = [lastRead EXCEPT ![r] = NoRead]
    /\ UNCHANGED <<capacity, listening, pool, cmdq, db, ctx, op, ncalls,
                   result, fired, cpc, ltx, ended, cleanupRuns, scripted, budget,
                   ordOnly, faultCap, faults, norm, scenario, caught, cls>>

\* initDb().then(seedAdmin).then(() => app.listen(...)): the startup code
\* has returned and the server starts to serve requests.
Listen ==
    /\ ~listening /\ pc[NoCtx] = "idle"
    /\ listening' = TRUE
    /\ UNCHANGED <<capacity, pool, cmdq, db, ctx, pc, op, ncalls, result,
                   lastRead, fired, cpc, ltx, ended, cleanupRuns, scripted, budget,
                   ordOnly, faultCap, faults, norm, scenario, caught, cls>>

\* An executor that ends the transaction when a statement fails.
CtxAfterExecReset(cx, o) == IF o = "ok" THEN cx ELSE [cx EXCEPT !.inTx = FALSE]

\* const [result] = await executor.execute(q, params): run, get and all
\* assign nothing to ctx, whether execute resolves or rejects.
CtxAfterExec(cx, o) == cx

\* The database executes the command at the head of connection c's queue,
\* or rejects it, and the code awaiting it resumes.
DbStep(c) ==
    /\ c \in Conns /\ cmdq[c] # <<>>
    /\ LET cmd == Head(cmdq[c])
           p == cmd.p
           s == Store(p)
       IN \E o \in DbOutcomes(cmd) :
          /\ db' = IF o = "exec" THEN db ELSE DbApply(db, c, cmd)
          /\ faults' = FaultsAfter(p, cmd.k, o)
          /\ cmdq' = [cmdq EXCEPT ![c] = Tail(@)]
          /\ CASE cmd.k = "begin" ->
                    \* ctx.inTx = true; return { id: null, changes: 0 }
                    \* (beginTransaction rejects: run throws before it)
                    /\ ctx' = IF o = "ok" THEN [ctx EXCEPT ![s].inTx = TRUE] ELSE ctx
                    /\ ltx' = IF o = "ok"
                              THEN [ltx EXCEPT ![p] = IF @ = 0 THEN c ELSE @]
                              ELSE ltx
                    /\ pc' = [pc EXCEPT ![p] = "idle"]
                    /\ op' = [op EXCEPT ![p] = "none"]
                    /\ result' = [result EXCEPT ![p] = IF o = "ok" THEN "ok" ELSE "dbError"]
                    /\ UNCHANGED <<pool, cpc, lastRead>>
               [] cmd.k \in {"commit", "rollback"} ->
                    \* ctx.inTx = false; if (ctx.conn) { release; conn = null }
                    \* (commit/rollback rejects: run throws before them)
                    /\ pool' = IF o = "ok" THEN PoolAfterRelease(pool, ctx[s]) ELSE pool
                    /\ ctx' = IF o = "ok"
                              THEN [ctx EXCEPT ![s] = [CtxRelease(@) EXCEPT !.inTx = FALSE]]
                              ELSE ctx
                    /\ pc' = [pc EXCEPT ![p] = "idle"]
                    /\ op' = [op EXCEPT ![p] = "none"]
                    /\ result' = [result EXCEPT ![p] = IF o = "ok" THEN "ok" ELSE "dbError"]
                    /\ UNCHANGED <<ltx, cpc, lastRead>>
               [] cmd.k = "cleanupRollback" ->
                    \* try { await rollback } catch {}
                    \* finally { try { ctx.conn.release() } catch {} ... }
                    /\ pool' = CleanupPool(pool, ctx[s], o)
                    /\ ctx' = [ctx EXCEPT ![s] = [CtxRelease(@) EXCEPT !.inTx = FALSE]]
                    /\ cpc' = [cpc EXCEPT ![p] = "idle"]
                    /\ UNCHANGED <<ltx, pc, op, result, lastRead>>
               [] OTHER ->
                    \* execute resolves or rejects; pool.execute releases its
                    \* connection either way
                    /\ pool' = IF cmd.pooled THEN PoolRelease(pool, c) ELSE pool
                    /\ lastRead' = IF cmd.k = "read" /\ o = "ok"
                                   THEN [lastRead EXCEPT ![p] =
                                           [seen |-> DbVisible(db, c),
                                            dirty |-> db.pending[c]]]
                                   ELSE lastRead
                    /\ pc' = [pc EXCEPT ![p] = "idle"]
                    /\ op' = [op EXCEPT ![p] = "none"]
                    /\ result' = [result EXCEPT ![p] = IF o = "ok" THEN "ok" ELSE "dbError"]
                    /\ ctx' = IF HasCtx(p)
                              THEN [ctx EXCEPT ![s] = CtxAfterExec(@, o)]
                              ELSE ctx
                    /\ UNCHANGED <<ltx, cpc>>
    /\ UNCHANGED <<capacity, listening, ncalls, fired, ended, cleanupRuns,
                   scripted, budget, ordOnly, faultCap, norm, scenario, caught, cls>>

\* run returns: return { id: insertId, changes } / { id: null, changes: 0 }.
NormStep ==
    /\ norm.k # "none" /\ ~norm.out.done
    /\ norm' = [norm EXCEPT !.out = RunResult(norm.k, norm.q, norm.res)]
    /\ UNCHANGED <<capacity, listening, pool, cmdq, db, ctx, pc, op, ncalls,
                   result, lastRead, fired, cpc, ltx, ended, cleanupRuns,
                   scripted, budget, ordOnly, faultCap, faults, scenario,
                   caught, cls>>

\* run(sql) up to the choice of its branch.
ClassStep ==
    /\ cls.class = "none"
    /\ cls' = [cls EXCEPT !.class = Classify(cls.q)]
    /\ UNCHANGED <<capacity, listening, pool, cmdq, db, ctx, pc, op, ncalls,
                   result, lastRead, fired, cpc, ltx, ended, cleanupRuns,
                   scripted, budget, ordOnly, faultCap, faults, norm, scenario,
                   caught>>

Next ==
    \/ \E p \in Procs, k \in TxKinds : IssueTx(p, k)
    \/ \E p \in Procs, k \in OrdKinds : IssueOrd(p, k)
    \/ \E p \in Procs : Grant(p)
    \/ \E c \in Conns : DbStep(c)
    \/ \E r \in Reqs, s \in Signals : Signal(r, s)
    \/ \E r \in Reqs : HandlerDone(r)
    \/ Listen

Spec == Init /\ [][Next]_vars

\* Requests each running begin; insert; read-back; commit.
SpecIso == InitIso /\ [][Next]_vars

\* The startup code's calls, then requests.
SpecStartup == InitStartup /\ [][Next]_vars

\* Request 1 issues ordinary statements only, the others anything.
SpecOrd == InitOrd /\ [][Next]_vars

\* The server with failing statements, acquisitions and releases.
SpecFail == InitFail /\ [][Next]_vars

\* Two concurrent call chains on one context.
SpecConc == InitConc /\ [][Next]_vars

\* begin; begin; commit; insert; commit.
SpecNest == InitNest /\ [][Next]_vars

\* POST /invoices.
SpecInvoice == InitInvoice /\ [][Next]_vars

\* The result mapping of run on its own.
NextNorm == NormStep
SpecNorm == InitNorm /\ [][NextNorm]_vars

\* The statement classifier on its own.
NextClass == ClassStep
SpecClass == InitClass /\ [][NextClass]_vars

\* The pool serves the head of its queue once a connection is there, and
\* the database executes the command at the head of every connection's
\* queue; handlers and clients are under no obligation.
Fairness ==
    /\ \A p \in Procs : WF_vars(Grant(p))
    /\ \A c \in Conns : WF_vars(DbStep(c))
SpecLive == InitLive /\ [][Next]_vars /\ Fairness

----------------------------------------------------------------------------
\* State functions the properties are written with.
Occurs(seq, x) == Cardinality({i \in 1..Len(seq) : seq[i] = x})
CmdsOf(c) == {cmdq[c][i] : i \in 1..Len(cmdq[c])}
\* pool.execute calls that hold connection c at the moment
Borrowers(c) == {i \in 1..Len(cmdq[c]) : cmdq[c][i].pooled}
\* contexts whose leasedConnection is c
CtxHolders(c) == {r \in Procs : ctx[r].conn = c}
LeasedOut(c) == Cardinality(CtxHolders(c)) + Cardinality(Borrowers(c))
RECURSIVE SumLeased(_)
SumLeased(n) == IF n = 0 THEN 0 ELSE LeasedOut(n) + SumLeased(n - 1)
Leases == SumLeased(MaxPoolSize)
Waiting(p) == Occurs(pool.waiting, p) > 0
HoldsTx(r) == ctx[r].inTx /\ ctx[r].conn # Null
\* the request is over: handler stopped, both signals emitted, cleanup and
\* every command it or its handler sent have completed
Quiescent(r) ==
    /\ pc[r] = "done" /\ fired[r] = Signals /\ cpc[r] = "idle"
    /\ \A c \in Conns : \A cmd \in CmdsOf(c) : cmd.p # r

----------------------------------------------------------------------------
\* C1: the number of pool connections leased out at the same time (held as
\* a context's ctx.conn or borrowed by pool.execute for one statement)
\* never exceeds the pool's connectionLimit.
C1_LeasesWithinCapacity ==
    /\ Leases <= capacity
    /\ pool.created <= capacity

\* C1 witness: the pool is exhausted by a transaction and a borrowed
\* connection of another request, with capacity 2.
C1_Witness ==
    /\ capacity = 2 /\ Leases = 2
    /\ \E r \in Reqs : HoldsTx(r)
    /\ \E c \in Conns : Borrowers(c) # {}

\* C2 (as claimed): once the handler has stopped and the safety net has
\* run, the context holds no connection and transactionActive is false.
C2_NoLeakAtEnd ==
    \A r \in Reqs : Quiescent(r) => ctx[r].conn = Null /\ ~ctx[r].inTx

\* C3 (as claimed): a request that processed BEGIN and never issued COMMIT
\* or ROLLBACK has, once it is over, its connection rolled back and back
\* in the pool exactly once, and none of its transaction's writes stored.
C3_AtomicCleanup ==
    \A r \in Reqs :
        (Quiescent(r) /\ ltx[r] # 0 /\ ~ended[r]) =>
            /\ ctx[r].conn = Null
            /\ <<r, TRUE, 0>> \notin db.committed
            /\ <<r, TRUE, 0>> \notin db.pending[ltx[r]]
            /\ Occurs(pool.free, ltx[r]) + LeasedOut(ltx[r]) = 1

\* C3 witness of the intended case: the request began, wrote, stopped, and
\* the safety net rolled back and released its connection.
C3_Witness ==
    \E r \in Reqs :
        /\ Quiescent(r) /\ ltx[r] # 0 /\ ~ended[r] /\ ncalls[r] >= 2
        /\ ctx[r].conn = Null /\ ~db.txOpen[ltx[r]]
        /\ Occurs(pool.free, ltx[r]) = 1
        /\ <<r, TRUE, 0>> \notin db.committed

\* C4: no connection is the ctx.conn of two contexts at once, and a
\* connection that is some context's ctx.conn is neither on the pool's
\* free list nor borrowed by a pool.execute of any caller.
C4_ExclusiveLease ==
    \A c \in Conns :
        CtxHolders(c) # {} =>
            /\ Cardinality(CtxHolders(c)) = 1
            /\ Occurs(pool.free, c) = 0
            /\ Borrowers(c) = {}
            /\ c <= pool.created

\* C4 witness: two contexts hold a connection each, inside transactions.
C4_Witness ==
    \E r1, r2 \in Reqs :
        r1 # r2 /\ HoldsTx(r1) /\ HoldsTx(r2) /\ ctx[r1].conn # ctx[r2].conn

\* C5 (as claimed): in every state of every context, inTx implies that
\* conn is not null.
C5_InTxImpliesConn ==
    \A r \in Reqs : ctx[r].inTx => ctx[r].conn # Null

\* C6: cleanup's body runs at most once per request however many signals
\* are emitted; cleaned never goes back to false; a signal that finds
\* cleaned set changes neither the context nor the pool nor any connection.
C6_IdempotentTeardown ==
    /\ [](\A r \in Reqs : /\ cleanupRuns[r] <= 1
                          /\ ctx[r].cleaned <=> cleanupRuns[r] = 1)
    /\ [][\A r \in Reqs :
            /\ ctx[r].cleaned => ctx'[r].cleaned
            /\ (ctx[r].cleaned /\ fired'[r] # fired[r]) =>
                 UNCHANGED <<ctx, pool, cmdq, db, cpc, cleanupRuns>>]_vars

\* C6 witness: both signals were emitted, the second one while the first
\* invocation was still awaiting its rollback.
C6_Witness ==
    \E r \in Reqs :
        fired[r] = Signals /\ cleanupRuns[r] = 1 /\ cpc[r] = "rollback"

\* C7 (as claimed): no executor call made outside a request ever executes
\* a statement; each fails with the configuration error.
C7_AlwaysFailsFast ==
    /\ pc[NoCtx] = "idle"
    /\ result[NoCtx] \in {"none", "ctxError"}

\* C7 (amended): outside a request a transaction-control statement fails
\* at once with the configuration error and touches neither a context nor
\* the pool; an ordinary statement of run/get/all does not fail: it runs
\* on a connection borrowed from the pool for that statement.
C7_TxControlFailsFast ==
    /\ [](/\ ctx[NoCtx] = [conn |-> Null, inTx |-> FALSE, cleaned |-> FALSE]
          /\ result[NoCtx] = "ctxError" <=> op[NoCtx] \in TxKinds
          /\ pc[NoCtx] # "idle" => op[NoCtx] \in OrdKinds
          /\ \A c \in Conns : \A cmd \in CmdsOf(c) :
                cmd.p = NoCtx => cmd.pooled /\ cmd.k \in {"write", "read"})
    /\ [][(op'[NoCtx] \in TxKinds /\ ncalls'[NoCtx] # ncalls[NoCtx]) =>
            UNCHANGED <<pool, cmdq, db, ctx, pc>>]_vars

\* C7 witness: the startup code stored a row with an ordinary statement
\* and then got the configuration error for a transaction-control one.
C7_Witness ==
    /\ result[NoCtx] = "ctxError"
    /\ ncalls[NoCtx] = 2
    /\ <<NoCtx, FALSE, 0>> \in db.committed

\* C8 (as claimed): an ordinary statement issued after the handler's BEGIN
\* returned and before it issued COMMIT or ROLLBACK is sent on the
\* connection that BEGIN leased, never to the pool.
C8_SameConnection ==
    \A r \in Reqs :
        (ltx[r] # 0 /\ op[r] \in OrdKinds /\ pc[r] \in {"acquire", "db"}) =>
            /\ pc[r] = "db"
            /\ \E cmd \in CmdsOf(ltx[r]) : cmd.p = r /\ ~cmd.pooled

\* C8 witness of the intended case: the statement is on the leased
\* connection.
C8_Witness ==
    \E r \in Reqs :
        /\ ltx[r] # 0 /\ op[r] \in OrdKinds /\ pc[r] = "db"
        /\ \E cmd \in CmdsOf(ltx[r]) : cmd.p = r /\ ~cmd.pooled

\* C9 (as claimed): in begin; insert; read-back; commit the read-back
\* returns the request's own uncommitted insert and no uncommitted row of
\* another request, and once every request's COMMIT has returned every
\* insert is stored.
C9_Isolation ==
    /\ \A r \in Reqs :
          (ncalls[r] = 3 /\ pc[r] = "idle") =>
              /\ <<r, TRUE, 0>> \in lastRead[r].dirty
              /\ lastRead[r].dirty \subseteq {<<r, TRUE, 0>>}
    /\ (\A r \in Reqs : ncalls[r] = Len(IsoScript) /\ pc[r] \in {"idle", "done"}) =>
          \A r \in Reqs : <<r, TRUE, 0>> \in db.committed

\* C9 witness of the intended case: both requests committed and both
\* inserts are stored.
C9_Witness ==
    /\ \A r \in Reqs : pc[r] = "done" /\ <<r, TRUE, 0>> \in db.committed

\* C10: with capacity 1, while a request holds an open transaction on the
\* sole connection, a BEGIN of another request that is in progress is
\* suspended in the pool's queue, and it stays there as long as the first
\* request holds its transaction.
C10_BeginWaits ==
    /\ [](\A r1, r2 \in Reqs :
            (capacity = 1 /\ r1 # r2 /\ HoldsTx(r1)) =>
                /\ ctx[r2].conn = Null
                /\ (op[r2] = "BEGIN" /\ pc[r2] # "idle") => Waiting(r2))
    /\ [][\A r1, r2 \in Reqs :
            (capacity = 1 /\ r1 # r2 /\ HoldsTx(r1) /\ HoldsTx(r1)'
               /\ op[r2] = "BEGIN" /\ Waiting(r2)) => Waiting(r2)']_vars

\* C10 witness: capacity 1, one request inside its transaction, the
\* other's BEGIN waiting.
C10_Witness ==
    \E r1, r2 \in Reqs :
        /\ capacity = 1 /\ r1 # r2 /\ HoldsTx(r1)
        /\ op[r2] = "BEGIN" /\ Waiting(r2)

\* C11: a request that issues only ordinary statements never has a
\* connection in its context; each of its statements runs on a connection
\* borrowed from the pool, which is back on the pool's free list in the
\* step in which the call returns, and between calls the request neither
\* holds nor waits for a connection.
C11_NoPinning ==
    /\ [](\A r \in ordOnly :
            /\ ctx[r].conn = Null /\ ~ctx[r].inTx
            /\ pc[r] \in {"idle", "done"} =>
                  /\ ~Waiting(r)
                  /\ \A c \in Conns : \A cmd \in CmdsOf(c) : cmd.p # r)
    /\ [][\A r \in ordOnly, c \in Conns :
            (cmdq[c] # <<>> /\ Head(cmdq[c]).p = r /\ cmdq'[c] = Tail(cmdq[c])) =>
                /\ Head(cmdq[c]).pooled
                /\ pc'[r] = "idle"
                /\ Occurs(pool'.free, c) = 1
                /\ ctx'[r].conn = Null]_vars

\* C11 witness: the request has completed all its ordinary statements
\* while another request held a transaction on a leased connection.
C11_Witness ==
    \E r \in ordOnly, r2 \in Reqs :
        /\ ncalls[r] = MaxCalls /\ pc[r] = "idle" /\ result[r] = "ok"
        /\ r2 # r /\ HoldsTx(r2)

\* C12 (as claimed): an ordinary statement that a context sent on its
\* leased connection is executed while the context still holds that
\* connection, never after COMMIT, ROLLBACK or the safety net gave the
\* connection back to the pool.
C12_NoUseAfterRelease ==
    [][\A c \in Conns :
         (/\ cmdq[c] # <<>> /\ cmdq'[c] = Tail(cmdq[c])
          /\ ~Head(cmdq[c]).pooled
          /\ Head(cmdq[c]).k \in {"write", "read"}) =>
             ctx[Head(cmdq[c]).p].conn = c]_vars

\* C12 witness of the intended case: an insert sent inside the transaction
\* is still queued on the leased connection when the safety net starts, and
\* the rollback of the safety net is queued behind it.
C12_Witness ==
    \E r \in Reqs :
        /\ HoldsTx(r) /\ cpc[r] = "rollback"
        /\ Len(cmdq[ctx[r].conn]) >= 2
        /\ cmdq[ctx[r].conn][1].p = r /\ cmdq[ctx[r].conn][1].k = "write"
        /\ cmdq[ctx[r].conn][2].k = "cleanupRollback"

\* C13 (as claimed): no connection is released twice (it is never on the
\* free list twice, nor there while leased), and the release performed
\* when a COMMIT, a ROLLBACK or the rollback of the safety net completes
\* gives back the connection that command ran on, the lease it was issued
\* for, never a connection the context acquired afterwards.
C13_ReleaseOncePerLease ==
    /\ [](\A c \in Conns :
            /\ Occurs(pool.free, c) <= 1
            /\ Occurs(pool.free, c) = 1 => LeasedOut(c) = 0)
    /\ [][\A c \in Conns :
            (/\ cmdq[c] # <<>> /\ cmdq'[c] = Tail(cmdq[c])
             /\ Head(cmdq[c]).k \in {"commit", "rollback", "cleanupRollback"}
             /\ ctx[Head(cmdq[c]).p].conn # Null
             /\ ctx'[Head(cmdq[c]).p].conn = Null) =>
                ctx[Head(cmdq[c]).p].conn = c]_vars

\* C13 witness of the intended case: BEGIN, a statement, COMMIT; the one
\* connection that was leased is back on the free list, once.
C13_Witness ==
    \E r \in Reqs :
        /\ ncalls[r] = 3 /\ pc[r] = "idle" /\ ended[r] /\ fired[r] = {}
        /\ ctx[r].conn = Null /\ ~ctx[r].inTx
        /\ <<r, TRUE, 0>> \in db.committed
        /\ pool.created = 1 /\ pool.free = <<1>>

\* C14: the step in which an ordinary statement of a caller fails hands
\* the caller the database's error and changes no context; and no step of
\* an ordinary call changes its context's conn or inTx (only the safety
\* net does, if it runs meanwhile), so a failing statement inside a
\* transaction leaves the context IN_TRANSACTION on the same connection.
C14_FailureLeavesContext ==
    [][\A p \in Procs :
         /\ (\E w \in {"write", "read"} : <<p, w>> \in faults' \ faults) =>
               /\ result'[p] = "dbError" /\ pc'[p] = "idle"
               /\ ctx' = ctx
         /\ ((op[p] \in OrdKinds \/ op'[p] \in OrdKinds)
               /\ fired' = fired /\ cpc' = cpc) =>
               ctx'[p] = ctx[p]]_vars

\* C14 witness: a statement inside a transaction failed and the context
\* is still in its transaction on its connection.
C14_Witness ==
    \E r \in Reqs :
        /\ <<r, "write">> \in faults /\ result[r] = "dbError" /\ pc[r] = "idle"
        /\ HoldsTx(r) /\ db.txOpen[ctx[r].conn]

\* C15: when the rollback of the safety net fails, or its release throws,
\* the step that ends cleanup hands no error to anyone (the handler's
\* position and result are unchanged), leaves the context with conn null
\* and inTx false, and, unless the release itself threw, has put the
\* connection the context held on the pool's free list.
C15_CleanupFailuresDiscarded ==
    [][\A r \in Reqs :
         /\ (<<r, "cleanupRollback">> \in faults' \ faults) =>
               /\ cpc'[r] = "idle"
               /\ ctx'[r] = [conn |-> Null, inTx |-> FALSE, cleaned |-> TRUE]
               /\ ctx[r].conn # Null => Occurs(pool'.free, ctx[r].conn) = 1
               /\ UNCHANGED <<pc, op, result>>
         /\ (<<r, "release">> \in faults' \ faults) =>
               /\ cpc'[r] = "idle"
               /\ ctx'[r] = [conn |-> Null, inTx |-> FALSE, cleaned |-> TRUE]
               /\ UNCHANGED <<pc, op, result>>]_vars

\* C15 witness: the rollback of the safety net failed; the context is
\* empty and its connection is back in the pool.
C15_Witness ==
    \E r \in Reqs :
        /\ <<r, "cleanupRollback">> \in faults /\ cpc[r] = "idle"
        /\ ctx[r].conn = Null /\ ~ctx[r].inTx
        /\ ltx[r] # 0 /\ Occurs(pool.free, ltx[r]) = 1
        /\ pc[r] = "done"

\* C16: a step of an executor call made on behalf of one caller (its issue,
\* the resumption after its getConnection, the resumption after its
\* database command) leaves conn, inTx and cleaned of every other
\* request's context unchanged.
C16_OwnContextOnly ==
    [][\A a \in Procs, b \in Reqs :
         (a # b /\ (ncalls'[a] # ncalls[a] \/ pc'[a] # pc[a])) =>
             ctx'[b] = ctx[b]]_vars

\* C16 witness: one request is inside its transaction, two calls on, while
\* another has completed a call that left its own context empty.
C16_Witness ==
    \E r1, r2 \in Reqs :
        /\ r1 # r2 /\ HoldsTx(r1) /\ ncalls[r1] >= 2 /\ pc[r1] = "idle"
        /\ ncalls[r2] >= 1 /\ pc[r2] = "idle" /\ result[r2] = "ok"
        /\ ctx[r2] = [conn |-> Null, inTx |-> FALSE, cleaned |-> FALSE]

\* C17: a call that needs a connection from the pool and finds none
\* available is queued, without an error; and if the pool has a connection
\* available again and again (the holders give theirs back), every queued
\* call gets its connection and returns.
C17_BackpressureNoStarvation ==
    /\ [][\A r \in Reqs :
            (/\ ncalls'[r] # ncalls[r]
             /\ ctx[r].conn = Null
             /\ ~(pool.waiting = <<>> /\ PoolAvail(pool))) =>
                /\ pc'[r] = "acquire" /\ result'[r] = "none"
                /\ pool'.waiting = Append(pool.waiting, r)]_vars
    /\ ([]<>PoolAvail(pool)) =>
          \A r \in Reqs : (Waiting(r) ~> (pc[r] = "idle" /\ result[r] = "ok"))

\* C17 witness: capacity 1, one request inside its transaction, an
\* ordinary statement of the other waiting for the pool.
C17_Witness ==
    \E r1, r2 \in Reqs :
        /\ capacity = 1 /\ r1 # r2 /\ HoldsTx(r1)
        /\ op[r2] \in OrdKinds /\ Waiting(r2) /\ pc[r2] = "acquire"

\* The first word of a statement text, leading whitespace skipped.
FirstWord(q) ==
    IF TrimLeft(q) = <<>> THEN "ws" ELSE Lower(TrimLeft(q)[1])

\* C18: run returns changes equal to the affected-row count the database
\* reported, 0 if it reported none; id is not null only for a text whose
\* first word is insert and a result with a numeric insertId, and is then
\* that insertId (it is that insertId whenever whitespace and more text
\* follow the word insert); id is null for update and delete texts, and
\* BEGIN, COMMIT and ROLLBACK return {id: null, changes: 0}.
C18_ResultNormalization ==
    norm.out.done =>
        /\ norm.k \in TxKinds =>
              norm.out.id = NullVal /\ norm.out.changes = 0
        /\ norm.k = "RUN" =>
              /\ norm.out.changes =
                    (IF ~norm.res.nil /\ norm.res.affectedRows.t = "number"
                     THEN norm.res.affectedRows.v ELSE 0)
              /\ norm.out.id # NullVal =>
                    /\ FirstWord(norm.q) = "insert"
                    /\ norm.res.insertId.t = "number"
                    /\ norm.out.id = norm.res.insertId
              /\ FirstWord(norm.q) \in {"update", "delete"} =>
                    norm.out.id = NullVal
              /\ (/\ FirstWord(norm.q) = "insert"
                  /\ Len(Trim(norm.q)) >= 3 /\ Trim(norm.q)[2] = "ws"
                  /\ ~norm.res.nil /\ norm.res.insertId.t = "number") =>
                    norm.out.id = norm.res.insertId

\* C18 witness: an upper-case insert that generated the identifier 7 and
\* affected 2 rows.
C18_Witness ==
    /\ norm.out = [done |-> TRUE, id |-> Num(7), changes |-> 2]
    /\ norm.q = <<"INSERT", "ws", "into">>

\* C19 (as claimed, for a request whose safety net has not run): when no
\* executor call of the request is in progress its context is IDLE (conn
\* null, inTx false) or IN_TRANSACTION (conn set, inTx true).
C19_IdleOrInTransaction ==
    \A r \in Reqs :
        (pc[r] \in {"idle", "done"} /\ fired[r] = {}) =>
            \/ ctx[r].conn = Null /\ ~ctx[r].inTx
            \/ ctx[r].conn # Null /\ ctx[r].inTx

\* C19 witness of the intended case: getConnection failed for a BEGIN and
\* the context is IDLE.
C19_Witness ==
    \E r \in Reqs :
        /\ <<r, "acquire">> \in faults /\ result[r] = "dbError" /\ pc[r] = "idle"
        /\ ctx[r].conn = Null /\ ~ctx[r].inTx /\ ~ended[r] /\ fired[r] = {}

\* C20 (as claimed): the step in which a handler calls run(BEGIN) while
\* its context has inTx set returns {id: null, changes: 0} at once and
\* changes neither the pool, nor any connection's queue, nor the database,
\* nor any context.
C20_IdempotentBegin ==
    [][\A r \in Reqs :
         (/\ ncalls'[r] # ncalls[r] /\ ctx[r].inTx
          /\ op'[r] \in {"none", "BEGIN"}) =>
             /\ pc'[r] = "idle" /\ result'[r] = "ok"
             /\ UNCHANGED <<pool, cmdq, db, ctx>>]_vars

\* C21 (as claimed): when the commit or rollback that run(COMMIT) or
\* run(ROLLBACK) sent for an active transaction completes, it has run on the
\* connection the context holds; the call then returns with the context
\* IDLE, that connection on the pool's free list and the number of leased
\* connections lower by exactly one.
C21_CommitReleases ==
    [][\A c \in Conns :
         (/\ cmdq[c] # <<>> /\ cmdq'[c] = Tail(cmdq[c])
          /\ Head(cmdq[c]).k \in {"commit", "rollback"}) =>
             /\ ctx[Head(cmdq[c]).p].conn = c
             /\ ctx'[Head(cmdq[c]).p].conn = Null
             /\ ~ctx'[Head(cmdq[c]).p].inTx
             /\ pc'[Head(cmdq[c]).p] = "idle"
             /\ result'[Head(cmdq[c]).p] = "ok"
             /\ ~db'.txOpen[c]
             /\ pool'.free = Append(pool.free, c)
             /\ Leases' = Leases - 1]_vars

\* C21 witness of the intended case: BEGIN, an insert, ROLLBACK; the
\* context is IDLE, the insert is gone and the connection is free again.
C21_Witness ==
    \E r \in Reqs :
        /\ ncalls[r] = 3 /\ pc[r] = "idle" /\ ended[r] /\ fired[r] = {}
        /\ ctx[r].conn = Null /\ ~ctx[r].inTx
        /\ db.committed = {} /\ \A c \in Conns : db.pending[c] = {}
        /\ pool.created = 1 /\ pool.free = <<1>>
        /\ \A r2 \in Reqs \ {r} : ncalls[r2] = 0

RECURSIVE WordAt(_)
WordAt(t) ==
    IF t = <<>> \/ ~IsWordTok(Head(t)) THEN <<>>
    ELSE <<Upper(Head(t))>> \o WordAt(Tail(t))
LeadWord(q) == WordAt(TrimLeft(q))
\* The text after the first word.
AfterLead(q) == SubSeq(TrimLeft(q), Len(LeadWord(q)) + 1, Len(TrimLeft(q)))

\* C23: the classifier is a total function of the statement text into
\* begin, commit, rollback and ordinary, and the three tests exclude one
\* another: a text is begin exactly if its first word is BEGIN, or is START
\* followed by whitespace and the word TRANSACTION; commit exactly if its
\* first word is COMMIT; rollback exactly if it is ROLLBACK (in any letter
\* case, after leading whitespace); everything else is ordinary, also a
\* text whose first word only starts with a keyword, such as BEGINNING.
C23_ClassifierTotal ==
    cls.class # "none" =>
        LET w == LeadWord(cls.q)
            rest == AfterLead(cls.q)
            begin == \/ w = <<"BEGIN">>
                     \/ /\ w = <<"START">> /\ rest # <<>> /\ Head(rest) = "ws"
                        /\ LeadWord(rest) = <<"TRANSACTION">>
        IN /\ cls.class \in {"BEGIN", "COMMIT", "ROLLBACK", "ordinary"}
           /\ cls.class = "BEGIN" <=> begin
           /\ cls.class = "COMMIT" <=> w = <<"COMMIT">>
           /\ cls.class = "ROLLBACK" <=> w = <<"ROLLBACK">>
           /\ Cardinality({t \in {"b", "c", "r"} :
                  CASE t = "b" -> isBeginText(cls.q)
                    [] t = "c" -> isCommitText(cls.q)
                    [] OTHER -> isRollbackText(cls.q)}) <= 1
           /\ w = <<"BEGIN", "NING">> => cls.class = "ordinary"

\* C23 witness: the text "  BEGINNING;" was classified, as ordinary.
C23_Witness ==
    /\ cls.q = <<"ws", "BEGIN", "NING", ";">>
    /\ cls.class = "ordinary"

\* C24 (as claimed): a caller that waits in the pool's queue, for
\* getConnection or for pool.execute, holds no leased connection in its
\* context.
C24_NoHoldAndWait ==
    \A r \in Reqs : Waiting(r) => ctx[r].conn = Null

\* C24 witness: a request holding no connection waits in the queue of an
\* exhausted pool of capacity 1.
C24_Witness ==
    \E r \in Reqs :
        /\ capacity = 1 /\ Waiting(r) /\ ctx[r].conn = Null
        /\ \E r2 \in Reqs \ {r} : ctx[r2].conn = 1

\* C26 (as claimed): once the safety net has run for a request whose
\* handler has not yet issued COMMIT or ROLLBACK, nothing the handler wrote
\* after its BEGIN returned is stored durably: no such statement runs in
\* auto-commit mode on a pool connection.
C26_NoWriteAfterSafetyNet ==
    \A r \in Reqs :
        (ctx[r].cleaned /\ ~ended[r]) => <<r, TRUE, 0>> \notin db.committed

\* C26 witness: the handler began and inserted, the client disconnected and
\* the safety net rolled the insert back while the handler is still running
\* with its COMMIT ahead.
C26_Witness ==
    \E r \in Reqs :
        /\ ctx[r].cleaned /\ ~ended[r] /\ ncalls[r] = 2 /\ ltx[r] # 0
        /\ pc[r] = "idle" /\ cpc[r] = "idle" /\ fired[r] = {"close"}
        /\ db.committed = {} /\ db.pending[ltx[r]] = {}

\* C27 (as claimed): when the COMMIT of begin; insert; read-back; commit
\* has returned normally, the insert is stored.
C27_CommitMeansCommitted ==
    \A r \in Reqs :
        (/\ ncalls[r] = Len(IsoScript) /\ ended[r]
         /\ pc[r] \in {"idle", "done"} /\ result[r] = "ok") =>
            <<r, TRUE, 0>> \in db.committed

\* C27 witness of the intended case: a COMMIT returned normally before any
\* completion signal, and the insert is stored.
C27_Witness ==
    \E r \in Reqs :
        /\ ncalls[r] = Len(IsoScript) /\ ended[r] /\ pc[r] = "idle"
        /\ result[r] = "ok" /\ fired[r] = {}
        /\ <<r, TRUE, 0>> \in db.committed

\* C29 (as claimed): no connection on the pool's free list has a database
\* transaction open on it.
C29_NoOpenTxInPool ==
    \A c \in Conns : Occurs(pool.free, c) > 0 => ~db.txOpen[c]

\* C29 witness of the intended case: a transaction was opened on
\* connection 1 and committed, and the connection is back on the free list
\* with no transaction open.
C29_Witness ==
    \E r \in Reqs :
        /\ ltx[r] = 0 /\ ended[r] /\ result[r] = "ok" /\ fired[r] = {}
        /\ pool.created = 1 /\ pool.free = <<1>>
        /\ ~db.txOpen[1] /\ cmdq[1] = <<>>
        /\ <<r, TRUE, 0>> \in db.committed

\* C25 (as claimed): every connection the pool has opened is on the free
\* list, borrowed by a pool.execute, or held as some context's connection:
\* none was acquired by ensureTxConn and then lost, also when two calls of
\* one context pass ensureTxConn's check before either gets its connection.
C25_NoOrphanedConnection ==
    \A c \in Conns :
        c <= pool.created => Occurs(pool.free, c) + LeasedOut(c) >= 1

\* C25 witness: two concurrent calls of one context both found ctx.conn
\* empty and both wait for getConnection.
C25_Witness ==
    /\ scenario = "conc"
    /\ \A r \in Reqs : pc[r] = "acquire" /\ op[r] \in TxKinds /\ ncalls[r] = 1
    /\ ctx[1].conn = Null

\* C28 (as claimed): in begin; begin; commit; insert; commit the first
\* COMMIT leaves the context IDLE (the whole transaction is over, its
\* connection returned); the insert after it goes through pool.execute and
\* runs outside any transaction, so it is stored when it returns; the
\* second COMMIT sends no command and leaves the context IDLE.
C28_NoNesting ==
    \A r \in Reqs :
        /\ (ncalls[r] = 3 /\ pc[r] = "idle") =>
               (ctx[r].conn = Null /\ ~ctx[r].inTx)
        /\ (ncalls[r] = 4 /\ pc[r] = "db") =>
               (\E c \in Conns : \E cmd \in CmdsOf(c) : cmd.p = r /\ cmd.pooled)
        /\ (ncalls[r] = 4 /\ pc[r] = "idle") =>
               (result[r] = "ok" /\ <<r, FALSE, 0>> \in db.committed)
        /\ (ncalls[r] = 5) =>
               (\A c \in Conns : \A cmd \in CmdsOf(c) :
                    (cmd.p = r) => (cmd.k = "cleanupRollback"))
        /\ (ncalls[r] = 5 /\ pc[r] \in {"idle", "done"}) =>
               (ctx[r].conn = Null /\ ~ctx[r].inTx)

\* C28 witness of the intended case: a handler ran all five calls before
\* any completion signal; its insert is stored and its context is IDLE.
C28_Witness ==
    \E r \in Reqs :
        /\ scenario = "nest" /\ ncalls[r] = Len(NestScript) /\ pc[r] = "idle"
        /\ fired[r] = {} /\ result[r] = "ok"
        /\ ctx[r].conn = Null /\ ~ctx[r].inTx
        /\ <<r, FALSE, 0>> \in db.committed

\* Row n of request r's invoice is stored durably.
Stored(r, n) == \E t \in BOOLEAN : <<r, t, n>> \in db.committed

====
